---- MODULE Spec2Model ----
(***************************************************************************)
(* PageManager (src/src/page-manager.ts): the route-tree localization      *)
(* engine of nuxt-i18n-micro.                                              *)
(*                                                                         *)
(* Strings are modelled structurally so that the string operations of the  *)
(* code can be computed:                                                   *)
(*   - a path is a sequence of tokens; the token Sep is one "/" character, *)
(*     Seg(s) is a run of non-separator characters, LocaleSeg(codes) is    *)
(*     the path segment that matches exactly the locale codes `codes`;     *)
(*     the empty sequence is the empty string (and `undefined`: the code   *)
(*     only tests such values for truthiness);                             *)
(*   - a name is a sequence of its "-"-separated parts, so that            *)
(*     `localized-${base}-${code}` is <<"localized">> \o base \o <<code>>. *)
(* A page is a record [name, path, file, redirect, children]; file = ""    *)
(* means no file, children = <<>> means no children.                       *)
(***************************************************************************)
EXTENDS Integers, Sequences, FiniteSets, TLC

\* ---------------------------------------------------------------- bounds
MaxLocales == 2      \* longest configured locale list
MaxDepth == 2        \* deepest nesting of children below a top-level page
MaxPages == 2        \* longest top-level page list

\* ------------------------------------------------------- paths and names
Sep == <<"/">>
Seg(s) == <<s>>
LocaleSeg(codes) == <<":locale">> \o codes

NoPath == <<>>
Truthy(s) == s # <<>>

RECURSIVE collapseSeparators(_)
collapseSeparators(p) ==
  IF Len(p) <= 1 THEN p
  ELSE IF p[1] = Sep /\ p[2] = Sep THEN collapseSeparators(Tail(p))
  ELSE <<p[1]>> \o collapseSeparators(Tail(p))

stripTrailingSeparator(p) ==
  IF Len(p) > 0 /\ p[Len(p)] = Sep THEN SubSeq(p, 1, Len(p) - 1) ELSE p

\* utils.normalizePath: collapse repeated separators, strip the trailing
\* separator, enforce one leading separator (the root stays "/").
normalizePath(p) ==
  LET c == stripTrailingSeparator(collapseSeparators(p))
  IN  IF Len(c) > 0 /\ c[1] = Sep THEN c ELSE <<Sep>> \o c

\* node:path join of two strings: empty arguments are dropped, the rest are
\* joined by "/", repeated separators collapse, an empty result is ".".
pathJoin(a, b) ==
  LET j == IF a = <<>> THEN b ELSE IF b = <<>> THEN a ELSE a \o <<Sep>> \o b
  IN  IF j = <<>> THEN <<Seg(".")>> ELSE collapseSeparators(j)

\* utils.removeLeadingSlash
removeLeadingSlash(p) == IF Len(p) > 0 /\ p[1] = Sep THEN Tail(p) ELSE p

\* utils.buildFullPath: the locale segment, then the base path.
buildFullPath(codes, basePath) ==
  normalizePath(pathJoin(<<Sep>>, pathJoin(<<LocaleSeg(codes)>>, basePath)))

\* utils.buildRouteName: localized-{base}-{code}
buildRouteName(baseName, code, isCustom) == <<"localized">> \o baseName \o <<code>>

\* utils.isLocaleDefault(locale, defaultLocale, includeDefaultLocaleRoute)
isLocaleDefault(code, defLocale, includeDefault) ==
  code = defLocale.code /\ ~includeDefault

\* utils.shouldAddLocalePrefix(locale, defaultLocale, addLocalePrefix, include)
shouldAddLocalePrefix(code, defLocale, addLocalePrefix, includeDefault) ==
  \/ code # defLocale.code
  \/ code = defLocale.code /\ (includeDefault \/ addLocalePrefix)

\* utils.isPageRedirectOnly
isPageRedirectOnly(page) == page.redirect /\ page.file = "" /\ page.children = <<>>

\* utils.cloneArray: a copy of every element
cloneArray(a) == [i \in 1..Len(a) |-> a[i]]


\* ----------------------------------------------------------------- state
VARIABLES
  locales,                    \* this.locales
  defaultLocale,              \* this.defaultLocale
  includeDefaultLocaleRoute,  \* this.includeDefaultLocaleRoute
  activeLocaleCodes,          \* this.activeLocaleCodes
  globalLocaleRoutes,         \* this.globalLocaleRoutes
  localizedPaths,             \* this.localizedPaths
  fileConfigs,                \* what extractDefineI18nRouteConfig yields per file
  pages,                      \* the array handed to extendPages
  inputPages,                 \* history: the array as it was handed over
  pc,                         \* position inside extendPages
  worklist,                   \* extractLocalizedPaths: pages still to visit
  building,                   \* extractLocalizedPaths: the map being built
  pageIndex,                  \* extendPages: index of pages.forEach
  additionalRoutes,           \* extendPages: additionalRoutes
  appended,                   \* history: the routes pushed per processed page
  extractorCalls,             \* history: files read, in order
  indexWrites,                \* history: number of writes to the map
  reads                       \* history: index keys read while localizing

vars == <<locales, defaultLocale, includeDefaultLocaleRoute, activeLocaleCodes,
          globalLocaleRoutes, localizedPaths, fileConfigs, pages, inputPages, pc,
          worklist, building, pageIndex, additionalRoutes, appended,
          extractorCalls, indexWrites, reads>>

\* ---------------------------------------------------------------- inputs
Codes == {"en", "fr", "de"}
DefaultLocaleCode == "en"

Iso(code) == IF code = "en" THEN "en-US" ELSE IF code = "fr" THEN "fr-FR" ELSE "de-DE"
Locale(code) == [code |-> code, iso |-> Iso(code)]
Undefined == [undefined |-> TRUE]

\* ordered locale lists without duplicate codes
LocaleLists ==
  UNION { { [i \in 1..n |-> Locale(f[i])] :
              f \in { g \in [1..n -> Codes] : \A i, j \in 1..n : i # j => g[i] # g[j] } } :
          n \in 0..MaxLocales }

P(s) == <<Sep, Seg(s)>>
NoMapping == [c \in Codes |-> NoPath]
Mapping(en, fr) == [c \in Codes |-> IF c = "en" THEN en ELSE IF c = "fr" THEN fr ELSE NoPath]

Absent == [kind |-> "absent", paths |-> NoMapping]
Excluded == [kind |-> "false", paths |-> NoMapping]
Custom(m) == [kind |-> "object", paths |-> m]

AboutName == <<"about">>
TeamName == <<"team">>
IndexName == <<"about", "index">>
BlogName == <<"blog">>
ContactName == <<"contact">>
LevelName(l) == IF l = 1 THEN TeamName ELSE IF l = 2 THEN <<"bio">> ELSE <<"deep">>
LevelFile(l) == IF l = 1 THEN "team.vue" ELSE ""

GlobalAbout == { Absent, Excluded,
                 Custom(Mapping(P("uber-uns"), P("a-propos"))),
                 Custom(Mapping(NoPath, P("a-propos"))) }
GlobalTeam == { Absent, Excluded, Custom(Mapping(P("crew"), P("equipe"))) }
GlobalTables ==
  { [n \in {AboutName, TeamName, IndexName, BlogName, ContactName, LevelName(2), LevelName(3)} |->
       IF n = AboutName THEN a ELSE IF n = TeamName THEN t ELSE Absent] :
    a \in GlobalAbout, t \in GlobalTeam }

NoConfig == [has |-> FALSE, localeRoutes |-> NoMapping]
Config(m) == [has |-> TRUE, localeRoutes |-> m]
FileNames == {"about.vue", "team.vue", "index.vue", "blog.vue", "contact.vue"}
FileConfigSets ==
  { [f \in FileNames |->
       IF f = "about.vue" THEN a ELSE IF f = "team.vue" THEN t
       ELSE IF f = "index.vue" THEN Config(Mapping(NoPath, P("emb-index")))
       ELSE NoConfig] :
    a \in { NoConfig, Config(Mapping(P("emb-en"), P("emb-fr"))) },
    t \in { NoConfig, Config(Mapping(NoPath, P("emb-equipe"))) } }

Page(name, path, file, redirect, children) ==
  [name |-> name, path |-> path, file |-> file, redirect |-> redirect, children |-> children]

\* the children lists a page at nesting level l - 1 may have
RECURSIVE ChildLists(_)
ChildLists(l) ==
  IF l > MaxDepth THEN { <<>> }
  ELSE { <<>> } \cup
       { << Page(LevelName(l), <<Seg(LevelName(l)[1])>>, LevelFile(l), FALSE, kids) >> :
           kids \in ChildLists(l + 1) } \cup
       ( IF l = 1
         THEN { << Page(IndexName, NoPath, "index.vue", FALSE, <<>>),
                   Page(TeamName, <<Seg("team")>>, "team.vue", FALSE, <<>>) >> }
         ELSE {} )

AboutPages ==
  { Page(AboutName, p, "about.vue", FALSE, kids) :
      p \in { P("about"), <<Sep, Seg("info"), Sep>> }, kids \in ChildLists(1) }
  \cup { Page(AboutName, P("about"), "", TRUE, <<>>) }
BlogPages == { Page(BlogName, P("blog"), "blog.vue", FALSE, <<>>) }
ContactPages == { Page(ContactName, P("contact"), "contact.vue", FALSE, <<>>) }
PoolAt(i) == IF i = 1 THEN AboutPages ELSE IF i = 2 THEN BlogPages ELSE ContactPages

PageLists ==
  UNION { { ps \in [1..n -> AboutPages \cup BlogPages \cup ContactPages] :
              \A i \in 1..n : ps[i] \in PoolAt(i) } : n \in 1..MaxPages }


\* ------------------------------------------------------------ constructor
findLocaleByCode(ls, code) ==
  LET hits == SelectSeq(ls, LAMBDA l : l.code = code)
  IN  IF hits = <<>> THEN Undefined ELSE hits[1]

resolveDefaultLocale(ls, code) ==
  IF findLocaleByCode(ls, code) # Undefined THEN findLocaleByCode(ls, code)
  ELSE [code |-> code]

\* faulty variant: the include flag is forgotten
computeActiveLocaleCodesNoFlag(ls, defLocale, includeDefault) ==
  LET kept == SelectSeq(ls, LAMBDA l : l.code # defLocale.code)
  IN  [i \in 1..Len(kept) |-> kept[i].code]

computeActiveLocaleCodes(ls, defLocale, includeDefault) ==
  LET kept == SelectSeq(ls, LAMBDA l : l.code # defLocale.code \/ includeDefault)
  IN  [i \in 1..Len(kept) |-> kept[i].code]

\* --------------------------------------------------- extractLocalizedPaths
\* the key under which a page is recorded: normalizePath(path.join(parentPath, page.path))
indexKey(parentPath, page) == normalizePath(pathJoin(parentPath, page.path))

Visit(page, parentPath) == [page |-> page, parentPath |-> parentPath]
visitsOf(ps, parentPath) == [i \in 1..Len(ps) |-> Visit(ps[i], parentPath)]

Put(map, key, value) == [k \in DOMAIN map \cup {key} |-> IF k = key THEN value ELSE map[k]]

\* does the visit of `page` call the page-config extractor?
readsFile(page) ==
  globalLocaleRoutes[page.name].kind \in {"absent", "false"} /\ page.file # ""

\* does the visit of `page` write the map?
writesIndex(page) ==
  \/ globalLocaleRoutes[page.name].kind = "object"
  \/ readsFile(page) /\ fileConfigs[page.file].has

\* the entry the visit of `page` writes
indexEntry(page) ==
  IF globalLocaleRoutes[page.name].kind = "object"
  THEN globalLocaleRoutes[page.name].paths
  ELSE fileConfigs[page.file].localeRoutes

\* ------------------------------------------------------ the route builders
customPathsAt(fullPath) ==
  IF fullPath \in DOMAIN localizedPaths THEN localizedPaths[fullPath] ELSE NoMapping

buildLocalizedRoutePath(routePath, locale, customLocalePaths, addLocalePrefix) ==
  LET basePath == IF Truthy(customLocalePaths[locale]) THEN customLocalePaths[locale] ELSE routePath
      normalizedBasePath == normalizePath(basePath)
  IN  IF shouldAddLocalePrefix(locale, defaultLocale, addLocalePrefix, includeDefaultLocaleRoute)
      THEN buildFullPath(<<locale>>, normalizedBasePath)
      ELSE normalizedBasePath

\* faulty variant: modifyName is ignored
buildLocalizedRouteNameAlwaysSuffixed(baseName, locale, modifyName) ==
  IF ~isLocaleDefault(locale, defaultLocale, includeDefaultLocaleRoute)
  THEN <<"localized">> \o baseName \o <<locale>>
  ELSE baseName

\* faulty variant: the locale code is left out of the name
buildLocalizedRouteNameNoLocale(baseName, locale, modifyName) ==
  IF modifyName /\ ~isLocaleDefault(locale, defaultLocale, includeDefaultLocaleRoute)
  THEN <<"localized">> \o baseName
  ELSE baseName

buildLocalizedRouteName(baseName, locale, modifyName) ==
  IF modifyName /\ ~isLocaleDefault(locale, defaultLocale, includeDefaultLocaleRoute)
  THEN <<"localized">> \o baseName \o <<locale>>
  ELSE baseName

\* faulty variant: includeDefaultLocaleRoute is not consulted for a custom path
buildRoutePathNoFlag(localeCodes, originalPath, customPath, isCustom) ==
  IF isCustom
  THEN IF ~(\E i \in 1..Len(localeCodes) : localeCodes[i] = defaultLocale.code)
       THEN buildFullPath(localeCodes, customPath)
       ELSE normalizePath(customPath)
  ELSE buildFullPath(localeCodes, originalPath)

buildRoutePath(localeCodes, originalPath, customPath, isCustom) ==
  IF isCustom
  THEN IF includeDefaultLocaleRoute
          \/ ~(\E i \in 1..Len(localeCodes) : localeCodes[i] = defaultLocale.code)
       THEN buildFullPath(localeCodes, customPath)
       ELSE normalizePath(customPath)
  ELSE buildFullPath(localeCodes, originalPath)

createLocalizedChildRoute(route, routePath, locale, customLocalePaths, children, modifyName, addLocalePrefix) ==
  [route EXCEPT
     !.name = buildLocalizedRouteName(route.name, locale, modifyName),
     !.path = removeLeadingSlash(
                buildLocalizedRoutePath(routePath, locale, customLocalePaths, addLocalePrefix)),
     !.children = children]

RECURSIVE createLocalizedChildren(_, _, _, _, _)
RECURSIVE createLocalizedVariants(_, _, _, _, _)

createLocalizedVariants(route, parentPath, localeCodes, modifyName, addLocalePrefix) ==
  LET routePath == normalizePath(route.path)
      fullPath == normalizePath(pathJoin(parentPath, routePath))
      customLocalePaths == customPathsAt(fullPath)
      localizedChildren ==
        createLocalizedChildren(route.children, fullPath, localeCodes, modifyName, FALSE)
  IN  [k \in 1..Len(localeCodes) |->
         createLocalizedChildRoute(route, routePath, localeCodes[k], customLocalePaths,
                                   localizedChildren, modifyName, addLocalePrefix)]

createLocalizedChildren(routes, parentPath, localeCodes, modifyName, addLocalePrefix) ==
  IF routes = <<>> THEN <<>>
  ELSE createLocalizedVariants(routes[1], parentPath, localeCodes, modifyName, addLocalePrefix)
       \o createLocalizedChildren(Tail(routes), parentPath, localeCodes, modifyName,
                                  addLocalePrefix)

createLocalizedRoute(page, localeCodes, originalChildren, isCustom, customPath) ==
  [page EXCEPT
     !.children = createLocalizedChildren(originalChildren, page.path, localeCodes, TRUE, FALSE),
     !.path = buildRoutePath(localeCodes, page.path, customPath, isCustom),
     !.name = buildRouteName(page.name, localeCodes[1], isCustom)]

\* history: the index keys createLocalizedChildren(routes, parentPath, ..) reads
\* (createLocalizedVariants, `this.localizedPaths[fullPath]`), each with the key
\* extractLocalizedPaths recorded the node under (trueParent: its parent's key).
RECURSIVE childReads(_, _, _)
childReads(routes, parentPath, trueParent) ==
  UNION { LET key == normalizePath(pathJoin(parentPath, normalizePath(routes[i].path)))
              expected == indexKey(trueParent, routes[i])
          IN  { [key |-> key, expected |-> expected] }
              \cup childReads(routes[i].children, key, expected)
          : i \in 1..Len(routes) }


\* a result of handling one page: the page as mutated, the routes pushed to
\* additionalRoutes, and (history) the index keys read
Outcome(page, routes, rd) == [page |-> page, routes |-> routes, reads |-> rd]
Read(key, expected) == [key |-> key, expected |-> expected]

\* ------------------------------------------ addCustomGlobalLocalizedRoutes
\* this.locales.forEach from index k on; acc.page is the page as mutated so far
RECURSIVE addCustomGlobalLocalizedRoutesFrom(_, _, _, _)
addCustomGlobalLocalizedRoutesFrom(k, customRoutePaths, trueKey, acc) ==
  IF k > Len(locales) THEN acc
  ELSE
    LET locale == locales[k]
        customPath == customRoutePaths[locale.code]
        page == acc.page
        next ==
          IF ~Truthy(customPath) THEN acc
          ELSE IF isLocaleDefault(locale.code, defaultLocale, includeDefaultLocaleRoute)
          THEN Outcome([page EXCEPT !.path = normalizePath(customPath)], acc.routes, acc.reads)
          ELSE Outcome(page,
                       Append(acc.routes,
                              createLocalizedRoute(page, <<locale.code>>, page.children, TRUE,
                                                   customPath)),
                       acc.reads \cup childReads(page.children, page.path, trueKey))
    IN  addCustomGlobalLocalizedRoutesFrom(k + 1, customRoutePaths, trueKey, next)

addCustomGlobalLocalizedRoutes(page, customRoutePaths) ==
  addCustomGlobalLocalizedRoutesFrom(1, customRoutePaths, indexKey(NoPath, page),
                                     Outcome(page, <<>>, {}))

\* ------------------------------------------------------------ localizePage
\* faulty variant: every configured locale is filtered, not the active ones
filterLocaleCodesOfAllLocales(fullPath) ==
  SelectSeq([i \in 1..Len(locales) |-> locales[i].code],
            LAMBDA code : ~Truthy(customPathsAt(fullPath)[code]))

\* faulty variant: the custom paths are not filtered out
filterLocaleCodesUnfiltered(fullPath) == activeLocaleCodes

filterLocaleCodesWithoutCustomPaths(fullPath) ==
  SelectSeq(activeLocaleCodes, LAMBDA code : ~Truthy(customPathsAt(fullPath)[code]))

\* this.locales.forEach from index k on
RECURSIVE addCustomLocalizedRoutesFrom(_, _, _, _, _)
addCustomLocalizedRoutesFrom(k, fullPath, originalChildren, trueKey, acc) ==
  IF k > Len(locales) THEN acc
  ELSE
    LET locale == locales[k]
        customPath == customPathsAt(fullPath)[locale.code]
        page == acc.page
        rd == acc.reads \cup { Read(fullPath, trueKey) }
        next ==
          IF ~Truthy(customPath) THEN Outcome(page, acc.routes, rd)
          ELSE IF isLocaleDefault(locale.code, defaultLocale, includeDefaultLocaleRoute)
          THEN Outcome([page EXCEPT !.children =
                          createLocalizedChildren(originalChildren, NoPath, <<locale.code>>,
                                                  FALSE, FALSE)],
                       acc.routes,
                       rd \cup childReads(originalChildren, NoPath, trueKey))
          ELSE Outcome(page,
                       Append(acc.routes,
                              createLocalizedRoute(page, <<locale.code>>, originalChildren, TRUE,
                                                   customPath)),
                       rd \cup childReads(originalChildren, page.path, trueKey))
    IN  addCustomLocalizedRoutesFrom(k + 1, fullPath, originalChildren, trueKey, next)

addCustomLocalizedRoutes(page, fullPath, originalChildren, routes, rd) ==
  addCustomLocalizedRoutesFrom(1, fullPath, originalChildren, indexKey(NoPath, page),
                               Outcome(page, routes, rd))

mergeChildren(originalChildren, parentPath, localeCodes) ==
  originalChildren
    \o createLocalizedChildren(originalChildren, parentPath, localeCodes, FALSE, FALSE)

\* a page name used as a path segment
nameAsPath(name) == IF name = <<>> THEN NoPath ELSE <<name>>

\* new Map(currentChildren.map(child => [child.name, child])).get(name):
\* the position of the last child of that name, 0 when there is none
childByName(children, name) ==
  LET hits == { i \in 1..Len(children) : children[i].name = name }
  IN  IF hits = {} THEN 0 ELSE CHOOSE i \in hits : \A j \in hits : j <= i

\* localizedChildren.forEach: overwrite the child of the same name, else append
RECURSIVE mergeLocalizedChildren(_, _, _)
mergeLocalizedChildren(currentChildren, childrenAtStart, localizedChildren) ==
  IF localizedChildren = <<>> THEN currentChildren
  ELSE
    LET localizedChild == localizedChildren[1]
        at == childByName(childrenAtStart, localizedChild.name)
    IN  mergeLocalizedChildren(
          IF at > 0 THEN [currentChildren EXCEPT ![at] = localizedChild]
          ELSE Append(currentChildren, localizedChild),
          childrenAtStart, Tail(localizedChildren))

adjustRouteForDefaultLocale(page, originalChildren) ==
  LET defaultLocalePath == customPathsAt(page.path)[defaultLocale.code]
      moved == IF Truthy(defaultLocalePath)
               THEN [page EXCEPT !.path = normalizePath(defaultLocalePath)]
               ELSE page
      currentChildren == moved.children
      newName == normalizePath(pathJoin(<<Sep>>, nameAsPath(page.name)))
      localizedChildren == mergeChildren(originalChildren, newName, <<defaultLocale.code>>)
  IN  IF originalChildren # <<>>
      THEN [moved EXCEPT !.children =
              mergeLocalizedChildren(currentChildren, currentChildren, localizedChildren)]
      ELSE moved

adjustReads(page, originalChildren, trueKey) ==
  { Read(page.path, trueKey) }
    \cup IF originalChildren # <<>>
         THEN childReads(originalChildren,
                         normalizePath(pathJoin(<<Sep>>, nameAsPath(page.name))), trueKey)
         ELSE {}

localizePage(page) ==
  IF isPageRedirectOnly(page) THEN Outcome(page, <<>>, {})
  ELSE
    LET originalChildren == cloneArray(page.children)
        normalizedFullPath == normalizePath(page.path)
        trueKey == indexKey(NoPath, page)
        localeCodesWithoutCustomPaths == filterLocaleCodesWithoutCustomPaths(normalizedFullPath)
        grouped ==
          IF localeCodesWithoutCustomPaths # <<>>
          THEN Outcome(page,
                       << createLocalizedRoute(page, localeCodesWithoutCustomPaths,
                                               originalChildren, FALSE, NoPath) >>,
                       { Read(normalizedFullPath, trueKey) }
                         \cup childReads(originalChildren, page.path, trueKey))
          ELSE Outcome(page, <<>>,
                       IF activeLocaleCodes # <<>> THEN { Read(normalizedFullPath, trueKey) }
                       ELSE {})
        custom == addCustomLocalizedRoutes(page, normalizedFullPath, originalChildren,
                                           grouped.routes, grouped.reads)
    IN  Outcome(adjustRouteForDefaultLocale(custom.page, originalChildren),
                custom.routes,
                custom.reads \cup adjustReads(custom.page, originalChildren, trueKey))

\* ------------------------------------------------------------- extendPages
\* the body of pages.forEach
localizeTopLevel(page) ==
  LET customRoute == globalLocaleRoutes[page.name]
  IN  IF customRoute.kind = "false" THEN Outcome(page, <<>>, {})
      ELSE IF customRoute.kind = "object"
      THEN addCustomGlobalLocalizedRoutes(page, customRoute.paths)
      ELSE localizePage(page)

\* faulty variant: the index is built lazily, after the pages are localized
extendPagesOrderLazy == <<"localize", "extract", "push">>

\* the order of the three parts of extendPages: the index is built, then the
\* pages are localized, then the additional routes are pushed
extendPagesOrder == <<"extract", "localize", "push">>

phaseAfter(phase) ==
  LET at == CHOOSE i \in 1..Len(extendPagesOrder) : extendPagesOrder[i] = phase
  IN  IF at = Len(extendPagesOrder) THEN "done" ELSE extendPagesOrder[at + 1]

\* the names of the pages of a tree
RECURSIVE namesIn(_)
namesIn(ps) ==
  UNION { {ps[i].name} \cup namesIn(ps[i].children) : i \in 1..Len(ps) }

\* Overrides and page files of pages that are not in the tree change nothing:
\* Init draws them for the pages of the tree only.
Init ==
  \E ls \in LocaleLists, inc \in BOOLEAN, glr \in GlobalTables,
     fc \in FileConfigSets, ps \in PageLists :
    /\ TeamName \notin namesIn(ps) => glr[TeamName] = Absent /\ fc["team.vue"] = NoConfig
    /\ locales = ls
    /\ defaultLocale = resolveDefaultLocale(ls, DefaultLocaleCode)
    /\ includeDefaultLocaleRoute = inc
    /\ activeLocaleCodes =
         computeActiveLocaleCodes(ls, resolveDefaultLocale(ls, DefaultLocaleCode), inc)
    /\ globalLocaleRoutes = glr
    /\ localizedPaths = << >>
    /\ fileConfigs = fc
    /\ pages = ps
    /\ inputPages = ps
    /\ pc = "ready"
    /\ worklist = << >>
    /\ building = << >>
    /\ pageIndex = 1
    /\ additionalRoutes = << >>
    /\ appended = << >>
    /\ extractorCalls = << >>
    /\ indexWrites = 0
    /\ reads = {}

config == <<locales, defaultLocale, includeDefaultLocaleRoute, activeLocaleCodes,
            globalLocaleRoutes, fileConfigs, inputPages>>

\* extendPages is called
ExtendPages ==
  /\ pc = "ready"
  /\ pc' = extendPagesOrder[1]
  /\ worklist' = visitsOf(pages, NoPath)
  /\ UNCHANGED <<config, localizedPaths, pages, building, pageIndex, additionalRoutes,
                 appended, extractorCalls, indexWrites, reads>>

\* extractLocalizedPaths visits one page
ExtractStep ==
  /\ pc = "extract"
  /\ worklist # << >>
  /\ LET page == worklist[1].page
         parentPath == worklist[1].parentPath
         fullPath == indexKey(parentPath, page)
     IN  /\ extractorCalls' = IF readsFile(page) THEN Append(extractorCalls, page.file)
                              ELSE extractorCalls
         /\ building' = IF writesIndex(page) THEN Put(building, fullPath, indexEntry(page))
                        ELSE building
         /\ indexWrites' = IF writesIndex(page) THEN indexWrites + 1 ELSE indexWrites
         /\ worklist' = visitsOf(page.children, fullPath) \o Tail(worklist)
  /\ UNCHANGED <<config, localizedPaths, pages, pc, pageIndex, additionalRoutes, appended,
                 reads>>

\* this.localizedPaths = this.extractLocalizedPaths(pages, rootDir)
ExtractReturn ==
  /\ pc = "extract"
  /\ worklist = << >>
  /\ localizedPaths' = building
  /\ pc' = phaseAfter("extract")
  /\ UNCHANGED <<config, pages, worklist, building, pageIndex, additionalRoutes, appended,
                 extractorCalls, indexWrites, reads>>

\* one iteration of pages.forEach
LocalizeStep ==
  /\ pc = "localize"
  /\ pageIndex <= Len(pages)
  /\ LET out == localizeTopLevel(pages[pageIndex])
     IN  /\ pages' = [pages EXCEPT ![pageIndex] = out.page]
         /\ additionalRoutes' = additionalRoutes \o out.routes
         /\ appended' = Append(appended, out.routes)
         /\ reads' = reads \cup out.reads
  /\ pageIndex' = pageIndex + 1
  /\ UNCHANGED <<config, localizedPaths, pc, worklist, building, extractorCalls, indexWrites>>

\* pages.forEach is over
LocalizeReturn ==
  /\ pc = "localize"
  /\ pageIndex > Len(pages)
  /\ pc' = phaseAfter("localize")
  /\ UNCHANGED <<config, localizedPaths, pages, worklist, building, pageIndex,
                 additionalRoutes, appended, extractorCalls, indexWrites, reads>>

\* pages.push(...additionalRoutes)
PushRoutes ==
  /\ pc = "push"
  /\ pages' = pages \o additionalRoutes
  /\ pc' = phaseAfter("push")
  /\ UNCHANGED <<config, localizedPaths, worklist, building, pageIndex, additionalRoutes,
                 appended, extractorCalls, indexWrites, reads>>

Next ==
  \/ ExtendPages
  \/ ExtractStep
  \/ ExtractReturn
  \/ LocalizeStep
  \/ LocalizeReturn
  \/ PushRoutes

Spec == Init /\ [][Next]_vars


\* ------------------------------------------------- vocabulary of the claims
\* every node of a route tree: the node, its position (child indices from the
\* top-level list down) and the key extractLocalizedPaths records it under
RECURSIVE nodesOf(_, _, _)
nodesOf(ps, parentPos, parentPath) ==
  UNION { { [page |-> ps[i], pos |-> Append(parentPos, i), key |-> indexKey(parentPath, ps[i])] }
          \cup nodesOf(ps[i].children, Append(parentPos, i), indexKey(parentPath, ps[i]))
          : i \in 1..Len(ps) }

InputNodes == nodesOf(inputPages, << >>, NoPath)
OutputNodes == nodesOf(pages, << >>, NoPath)

\* the node of a tree at a position
RECURSIVE nodeAt(_, _)
nodeAt(ps, pos) ==
  IF Len(pos) = 1 THEN ps[pos[1]] ELSE nodeAt(ps[pos[1]].children, Tail(pos))

RECURSIVE hasPosition(_, _)
hasPosition(ps, pos) ==
  /\ pos[1] \in 1..Len(ps)
  /\ Len(pos) > 1 => hasPosition(ps[pos[1]].children, Tail(pos))

\* every sibling list of a tree: the top-level list and every children list
RECURSIVE siblingLists(_)
siblingLists(ps) == {ps} \cup UNION { siblingLists(ps[i].children) : i \in 1..Len(ps) }

RECURSIVE subtreeNames(_)
subtreeNames(page) ==
  {page.name} \cup UNION { subtreeNames(page.children[i]) : i \in 1..Len(page.children) }

distinctNames(ps) == \A i, j \in 1..Len(ps) : i # j => ps[i].name # ps[j].name

codesOf(ls) == [i \in 1..Len(ls) |-> ls[i].code]
Range(seq) == { seq[i] : i \in 1..Len(seq) }

localizedName(base, code) == <<"localized">> \o base \o <<code>>
isLocalizedName(name) == Len(name) > 0 /\ name[1] = "localized"

\* the locale codes the leading locale segment of a top-level path matches
servedCodes(path) ==
  IF Len(path) >= 2 /\ path[1] = Sep /\ Len(path[2]) > 0 /\ path[2][1] = ":locale"
  THEN Range(Tail(path[2]))
  ELSE {}

IndexBuilt == pc \notin {"ready", "extract"}
Handled(i) == pc \in {"localize", "push", "done"} /\ i < pageIndex /\ i <= Len(inputPages)
DefaultMode(i) ==
  /\ Handled(i)
  /\ globalLocaleRoutes[inputPages[i].name].kind = "absent"
  /\ ~isPageRedirectOnly(inputPages[i])


\* ------------------------------------------------------------------ claims

\* C1 (as claimed). Exclusion: once extendPages has returned, every page of the
\* input tree, top-level or nested, whose name maps to false in the global
\* override table is found unchanged (path, name, children, descendants) at its
\* place, and no route of the output is named as a localized clone of that page
\* or of one of its descendants.
C1_ExclusionAnyDepth ==
  pc = "done" =>
    \A n \in InputNodes :
      globalLocaleRoutes[n.page.name].kind = "false" =>
        /\ hasPosition(pages, n.pos)
        /\ nodeAt(pages, n.pos) = n.page
        /\ \A o \in OutputNodes :
             \A base \in subtreeNames(n.page), c \in Codes :
               o.page.name # localizedName(base, c)

\* C2. Index-before-mutate ordering: a step that writes the index (the map being
\* built or this.localizedPaths) or calls the extractor starts and ends with no
\* page mutated and no route generated; once a page is mutated or a route is
\* generated, no later step writes the index or calls the extractor; and the
\* extractor is called once per visited page with a file and no truthy override.
indexState == <<building, localizedPaths, indexWrites, extractorCalls>>
untouchedTree == pages = inputPages /\ additionalRoutes = << >>

RECURSIVE filesToRead(_)
filesToRead(ps) ==
  IF ps = << >> THEN << >>
  ELSE (IF readsFile(ps[1]) THEN <<ps[1].file>> ELSE << >>)
       \o filesToRead(ps[1].children) \o filesToRead(Tail(ps))

C2_IndexBeforeMutate ==
  /\ [][ /\ indexState' # indexState => untouchedTree /\ untouchedTree'
         /\ ~untouchedTree => indexState' = indexState ]_vars
  /\ [](pc = "done" => extractorCalls = filesToRead(inputPages))

C2_Witness ==
  /\ pc = "done"
  /\ pages[1] # inputPages[1]
  /\ additionalRoutes # << >>
  /\ indexWrites > 1
  /\ Len(extractorCalls) > 1

\* C3 (as claimed). Custom-path precedence: for every page whose name maps to an
\* object in the global override table, the index holds exactly that object at
\* the page's normalized full path, the page's file is never read, and every
\* route generated for that page and a locale the object has a path for has a
\* path derived from the object's path for that locale.
derivedFrom(path, customPath, code) ==
  path \in { normalizePath(customPath),
             buildFullPath(<<code>>, customPath),
             removeLeadingSlash(normalizePath(customPath)),
             removeLeadingSlash(buildFullPath(<<code>>, normalizePath(customPath))) }

C3_GlobalOverrideWins ==
  \A n \in InputNodes :
    globalLocaleRoutes[n.page.name].kind = "object" =>
      LET object == globalLocaleRoutes[n.page.name].paths
      IN  /\ IndexBuilt => customPathsAt(n.key) = object
          /\ n.page.file \notin Range(extractorCalls)
          /\ pc = "done" =>
               \A o \in OutputNodes, c \in Codes :
                 o.page.name = localizedName(n.page.name, c) /\ Truthy(object[c])
                   => derivedFrom(o.page.path, object[c], c)

\* C4. Count property: a top-level page handled in default mode whose normalized
\* path has no custom path in the index for any locale gets exactly one sibling
\* when activeLocaleCodes is non-empty and none when it is empty; the original
\* pages keep their positions and the generated routes follow them all.
noCustomPathAt(i) ==
  \A c \in Codes : ~Truthy(customPathsAt(normalizePath(inputPages[i].path))[c])

C4_CountProperty ==
  /\ \A i \in 1..Len(inputPages) :
       DefaultMode(i) /\ noCustomPathAt(i) =>
         Len(appended[i]) = IF activeLocaleCodes # << >> THEN 1 ELSE 0
  /\ pc = "done" =>
       /\ Len(pages) = Len(inputPages) + Len(additionalRoutes)
       /\ \A i \in 1..Len(inputPages) :
            /\ pages[i].name = inputPages[i].name
            /\ pages[i].file = inputPages[i].file
       /\ SubSeq(pages, Len(inputPages) + 1, Len(pages)) = additionalRoutes
       /\ \A k \in 1..Len(additionalRoutes) : isLocalizedName(additionalRoutes[k].name)

C4_Witness ==
  /\ pc = "done"
  /\ Len(inputPages) = 2
  /\ DefaultMode(1) /\ noCustomPathAt(1) /\ DefaultMode(2) /\ noCustomPathAt(2)
  /\ Len(activeLocaleCodes) = 2
  /\ Len(pages) = 4

\* C5. Default-locale name stability: every original top-level page keeps its
\* name, whatever its mode, and the children of a page handled in default mode
\* carry, child by child, the unsuffixed names of the original children.
namesOf(ps) == [i \in 1..Len(ps) |-> ps[i].name]

C5_NameStability ==
  /\ \A i \in 1..Len(inputPages) : pages[i].name = inputPages[i].name
  /\ \A i \in 1..Len(inputPages) :
       DefaultMode(i) => namesOf(pages[i].children) = namesOf(inputPages[i].children)

C5_Witness ==
  /\ pc = "done"
  /\ DefaultMode(1)
  /\ includeDefaultLocaleRoute
  /\ defaultLocale.code \in Range(activeLocaleCodes)
  /\ inputPages[1].children # << >>
  /\ pages[1].children # inputPages[1].children
  /\ pages[1].path # inputPages[1].path


\* C6. Scenario D, custom mode with includeDefaultLocaleRoute = true.
\* A top-level page in the case of the scenario: its global override object has
\* a path for the default locale, which is configured, and the flag is set.
ScenarioD(i) ==
  /\ pc = "done"
  /\ i \in 1..Len(inputPages)
  /\ includeDefaultLocaleRoute
  /\ defaultLocale.code \in Range(codesOf(locales))
  /\ globalLocaleRoutes[inputPages[i].name].kind = "object"
  /\ Truthy(globalLocaleRoutes[inputPages[i].name].paths[defaultLocale.code])

customOf(i) == globalLocaleRoutes[inputPages[i].name].paths

\* the siblings pushed for page i whose path is the locale-prefixed custom path of c
siblingsAt(i, c) ==
  { k \in 1..Len(appended[i]) : appended[i][k].path = buildFullPath(<<c>>, customOf(i)[c]) }

ScenarioDExample ==
  /\ pc = "done"
  /\ codesOf(locales) = <<"en", "fr">>
  /\ defaultLocale.code = "en"
  /\ includeDefaultLocaleRoute
  /\ inputPages[1].name = AboutName /\ inputPages[1].path = P("about")
  /\ globalLocaleRoutes[AboutName] = Custom(Mapping(P("uber-uns"), P("a-propos")))

inputNamesWellFormed ==
  /\ \A l \in siblingLists(inputPages) : distinctNames(l)
  /\ \A n \in InputNodes : n.page.name # << >> /\ ~isLocalizedName(n.page.name)

RECURSIVE without(_, _)
without(seq, x) ==
  IF seq = << >> THEN << >>
  ELSE (IF seq[1] = x THEN << >> ELSE <<seq[1]>>) \o without(Tail(seq), x)

C8_LocaleRegistry ==
  /\ includeDefaultLocaleRoute => activeLocaleCodes = codesOf(locales)
  /\ ~includeDefaultLocaleRoute => activeLocaleCodes = without(codesOf(locales), DefaultLocaleCode)
  /\ DefaultLocaleCode \in Range(codesOf(locales)) => defaultLocale = Locale(DefaultLocaleCode)
  /\ DefaultLocaleCode \notin Range(codesOf(locales)) =>
       /\ defaultLocale = [code |-> DefaultLocaleCode]
       /\ activeLocaleCodes = codesOf(locales)

C8_Witness ==
  /\ pc = "done"
  /\ codesOf(locales) = <<"fr", "en">>
  /\ ~includeDefaultLocaleRoute
  /\ activeLocaleCodes = <<"fr">>

\* C9 (as claimed). Pre-mutation lookup keys: every read of the index made while
\* pages are localized, for a page or for a descendant whose localized children
\* are built, uses the key extractLocalizedPaths recorded that node under.
C9_PreMutationKeys == \A r \in reads : r.key = r.expected

\* C10. Locale coverage partition in default mode: for a top-level page handled
\* in default mode, each active code is served by exactly one sibling pushed for
\* the page: the grouped sibling (serving exactly the active codes without a
\* custom path, at the page's own path) when the index has no custom path for
\* it, else a sibling of its own at its custom path; no sibling serves a code
\* that is not active.
customAt(i, c) == customPathsAt(normalizePath(inputPages[i].path))[c]
serving(i, c) == { k \in 1..Len(appended[i]) : c \in servedCodes(appended[i][k].path) }

====
